---------------------------- MODULE Spec2Model ----------------------------
(***************************************************************************)
(* A model of src/main.py: the batch script that validates its            *)
(* configuration, lists the images of a directory, consumes the detector's *)
(* prediction results one by one, converts every oriented box to a COCO    *)
(* record with calculate_bbox and writes instances.json.                   *)
(*                                                                         *)
(* File names are sequences of one-character strings, so that lower(),     *)
(* endswith(), splitext() and the ordering of sorted() are computed.       *)
(* Directory paths are sequences of path components.                       *)
(* Lengths are counted in half units: the inputs of calculate_bbox are     *)
(* even numbers of half units, which makes width/2 exact, as halving a     *)
(* binary floating-point number is.  Angles are counted in twelfths of pi  *)
(* radians on input and in degrees on output.                              *)
(***************************************************************************)
EXTENDS Integers, Sequences, FiniteSets, TLC

VARIABLES
    config,                     \* the mapping read from constants.yaml
    fs,                         \* the directory paths and model file that exist
    listdir,                    \* the entries of the images directory
    pc,                         \* the position of main
    raised,                     \* the exception main ended with, or "none"
    save_annotations_file_path, \* locals of main
    save_image_path,
    save_txt_file_path,
    json_file_path,
    model,                      \* TRUE once YOLO(model_path) was constructed
    images_paths,
    categories,                 \* data["categories"]
    data_images,                \* data_images["images"]
    data_annotations,           \* data_annotations["annotations"]
    results,                    \* the results the prediction generator yielded so far
    saved_images,               \* the file paths result.save was called with
    saved_txts,                 \* the file paths result.save_txt was called with
    makedirs_calls,             \* the paths os.makedirs was called with
    json_dumps,                 \* the documents written to json_file_path, in order
    call,                       \* arguments of a direct call of calculate_bbox
    ret                         \* what that call returned

vars == <<config, fs, listdir, pc, raised, save_annotations_file_path,
          save_image_path, save_txt_file_path, json_file_path, model,
          images_paths, categories, data_images, data_annotations, results,
          saved_images, saved_txts, makedirs_calls, json_dumps, call, ret>>

----------------------------------------------------------------------------
(* Bounds of the model. *)

\* the most entries the images directory holds in Spec
MaxImages == 2

\* the most oriented boxes one prediction result holds
MaxBoxes == 2

\* the most entries the images directory holds in SpecList
MaxEntries == 3

----------------------------------------------------------------------------
(* Strings. *)

\* Python's None; as a path it is the empty one, which never exists
None == <<>>

\* ord(c) for the characters file names are made of
ord(c) ==
    CASE c = "." -> 46  [] c = "/" -> 47  [] c = "B" -> 66  [] c = "G" -> 71
      [] c = "J" -> 74  [] c = "N" -> 78  [] c = "P" -> 80  [] c = "a" -> 97
      [] c = "b" -> 98  [] c = "c" -> 99  [] c = "d" -> 100 [] c = "e" -> 101
      [] c = "g" -> 103 [] c = "j" -> 106 [] c = "n" -> 110 [] c = "p" -> 112
      [] c = "t" -> 116 [] c = "x" -> 120

\* str.lower() on one character
LowerChar(c) ==
    CASE c = "B" -> "b" [] c = "G" -> "g" [] c = "J" -> "j"
      [] c = "N" -> "n" [] c = "P" -> "p" [] OTHER -> c

\* str.lower()
lower(s) == [k \in 1..Len(s) |-> LowerChar(s[k])]

\* s.endswith(suffix) for one suffix
EndsWithOne(s, suffix) ==
    /\ Len(suffix) <= Len(s)
    /\ SubSeq(s, Len(s) - Len(suffix) + 1, Len(s)) = suffix

\* s.endswith(suffixes) for a tuple of suffixes
endswith(s, suffixes) == \E suffix \in suffixes : EndsWithOne(s, suffix)

\* the tuple (".jpg", ".jpeg", ".png") of line 101
ImageSuffixes ==
    { <<".", "j", "p", "g">>, <<".", "j", "p", "e", "g">>, <<".", "p", "n", "g">> }

\* a < b for Python strings: by code point, a proper prefix first
RECURSIVE StrLess(_, _)
StrLess(a, b) ==
    IF b = <<>> THEN FALSE
    ELSE IF a = <<>> THEN TRUE
    ELSE IF ord(a[1]) # ord(b[1]) THEN ord(a[1]) < ord(b[1])
    ELSE StrLess(Tail(a), Tail(b))

\* the index of the last "." of s, 0 when there is none
RECURSIVE LastDot(_, _)
LastDot(s, k) ==
    IF k = 0 THEN 0
    ELSE IF s[k] = "." THEN k
    ELSE LastDot(s, k - 1)

\* os.path.splitext(name)[0]: the name up to its last dot, the whole name when
\* it has no dot or only leading dots before that one
splitext_root(name) ==
    LET d == LastDot(name, Len(name))
    IN  IF d > 0 /\ (\E k \in 1..(d - 1) : name[k] # ".")
        THEN SubSeq(name, 1, d - 1)
        ELSE name

----------------------------------------------------------------------------
(* Paths and the file system. *)

\* os.path.curdir
curdir == <<".">>

\* os.path.join(base, *parts) for a directory path
join(base, parts) == base \o parts

\* os.path.join(directory, name) for a file: the path of a file in a directory
file_path(directory, name) == [dir |-> directory, file |-> name]

\* os.path.basename(path)
basename(path) == path.file

\* os.path.exists(path)
exists(path, files) == path \in files

\* os.makedirs(path): the directory and every missing ancestor come to exist
makedirs(path, files) == files \cup { SubSeq(path, 1, k) : k \in 1..Len(path) }

\* the order sorted() puts two paths of the images directory in: both begin
\* with images_path and the separator, so their names decide
PathLess(p, q) == StrLess(p.file, q.file)

\* list.insert into an ascending list, keeping it ascending
RECURSIVE Insert(_, _)
Insert(s, p) ==
    IF s = <<>> THEN <<p>>
    ELSE IF PathLess(p, Head(s)) THEN <<p>> \o s
    ELSE <<Head(s)>> \o Insert(Tail(s), p)

\* sorted(paths)
RECURSIVE sorted(_)
sorted(paths) ==
    IF paths = <<>> THEN <<>> ELSE Insert(sorted(Tail(paths)), Head(paths))

\* every order os.listdir may return the entries in
RECURSIVE ListdirOrders(_)
ListdirOrders(entries) ==
    IF entries = {} THEN { <<>> }
    ELSE UNION { { <<e>> \o s : s \in ListdirOrders(entries \ {e}) } : e \in entries }

----------------------------------------------------------------------------
(* calculate_bbox. *)

\* the class index kept zero-indexed: the + 1 of line 24 left out
CategoryId_ZeroIndexed(bbox_id, r_labels) == r_labels[(bbox_id - 1) + 1]

\* int(r_labels[bbox_id-1].item()) + 1; Python's index bbox_id-1 counts from
\* 0 and a TLA+ index from 1
CategoryId(bbox_id, r_labels) == r_labels[(bbox_id - 1) + 1] + 1

\* math.degrees(rotation) for an angle of rotation/12 * pi radians
degrees(rotation) == (rotation * 180) \div 12

\* calculate_bbox with the centre kept as the box origin
calculate_bbox_centre(bbox_id, img_id, r_labels, r_xywhr) ==
    LET x == r_xywhr[1]
        y == r_xywhr[2]
        width == r_xywhr[3]
        height == r_xywhr[4]
    IN  [ id |-> bbox_id,
          image_id |-> img_id,
          category_id |-> CategoryId(bbox_id, r_labels),
          segmentation |-> <<>>,
          area |-> width * height,
          bbox |-> <<x, y, width, height>>,
          iscrowd |-> 0,
          attributes |-> [occluded |-> FALSE, rotation |-> degrees(r_xywhr[5])] ]

\* calculate_bbox(bbox_id, img_id, r_labels, r_xywhr)
calculate_bbox(bbox_id, img_id, r_labels, r_xywhr) ==
    LET category_id == CategoryId(bbox_id, r_labels)
        x == r_xywhr[1]
        y == r_xywhr[2]
        width == r_xywhr[3]
        height == r_xywhr[4]
        rotation == degrees(r_xywhr[5])
        area == width * height
    IN  [ id |-> bbox_id,
          image_id |-> img_id,
          category_id |-> category_id,
          segmentation |-> <<>>,
          area |-> area,
          bbox |-> <<x - width \div 2, y - height \div 2, width, height>>,
          iscrowd |-> 0,
          attributes |-> [occluded |-> FALSE, rotation |-> rotation] ]

----------------------------------------------------------------------------
(* The pieces of main. *)

\* isinstance(labels, list)
is_list(labels) == labels.is_list

\* the licenses and info entries of the document
CocoHeader ==
    [ licenses |-> << [name |-> "", id |-> 0, url |-> ""] >>,
      info |-> [ contributor |-> "", date_created |-> "", description |-> "",
                 url |-> "", version |-> "", year |-> "" ] ]

\* the categories enumerated from 0
Categories_FromZero(labels) ==
    [k \in 1..Len(labels) |-> [id |-> k - 1, name |-> labels[k], supercategory |-> ""]]

\* [{"id": i, "name": label, ...} for i, label in enumerate(labels, start=1)]
Categories(labels) ==
    [k \in 1..Len(labels) |-> [id |-> k, name |-> labels[k], supercategory |-> ""]]

\* the test of line 101 without lower()
IsImageEntry_CaseSensitive(entry) ==
    entry.kind = "file" /\ endswith(entry.name, ImageSuffixes)

\* os.path.isfile(image_path) and image.lower().endswith((".jpg", ".jpeg", ".png"))
IsImageEntry(entry) ==
    entry.kind = "file" /\ endswith(lower(entry.name), ImageSuffixes)

\* the loop of lines 99-102 over one listing, then sorted()
LoadedImages(images_path, listing) ==
    LET kept == SelectSeq(listing, IsImageEntry)
    IN  sorted([k \in 1..Len(kept) |-> file_path(images_path, kept[k].name)])

\* the image record of line 130
new_image(i, result) ==
    [ id |-> i,
      width |-> result.orig_shape[2],
      height |-> result.orig_shape[1],
      file_name |-> basename(result.path),
      license |-> 0, flickr_url |-> "", coco_url |-> "", date_captured |-> 0 ]

\* the loop of lines 135-140 without id += 1
ResultAnnotations_NoIncrement(i, result) ==
    [k \in 1..Len(result.obb.xywhr) |->
        calculate_bbox(1, i, result.obb.cls, result.obb.xywhr[k])]

\* the annotations the loop of lines 135-140 appends for one result: id starts
\* at 1 and grows by one with every box
ResultAnnotations(i, result) ==
    [k \in 1..Len(result.obb.xywhr) |->
        calculate_bbox(k, i, result.obb.cls, result.obb.xywhr[k])]

\* the image path result.save is given
SavedImagePath(directory, result) == file_path(directory, basename(result.path))

\* the text path result.save_txt is given
SavedTxtPath(directory, result) ==
    file_path(directory, splitext_root(basename(result.path)) \o <<".", "t", "x", "t">>)

\* the labels check passing whatever labels is
LabelsRejected_Never(labels) == FALSE

\* the test of line 80
LabelsRejected(labels) == ~is_list(labels)

\* the write reached from inside the loop, before the generator is exhausted
ResultsExhausted_Early(yielded, images) == yielded >= 1 \/ yielded = images

\* the for loop of line 119 ends when the generator yielded one result per image
ResultsExhausted(yielded, images) == yielded = images

----------------------------------------------------------------------------
(* The inputs. *)

\* the model file and the directories the configuration may name
ModelPath == <<"model.pt">>
ImagesPath == <<"images">>
OutPath == <<"out">>

\* the label names a configuration lists
LabelNames == <<"car", "bus">>

\* the values of the labels key: a list of label names, or a scalar
LabelValues ==
    { [is_list |-> TRUE, items |-> SubSeq(LabelNames, 1, n)] : n \in 0..Len(LabelNames) }
        \cup { [is_list |-> FALSE, items |-> <<"car">>] }

\* the configurations constants.yaml may hold
Configs ==
    [ model_path : {ModelPath},
      images_path : {ImagesPath},
      save_annotations_path : {None, OutPath},
      labels : LabelValues,
      save_image : BOOLEAN,
      save_annotation : BOOLEAN ]

\* the directories an earlier run left under the current directory
EarlierRun ==
    makedirs(<<".", "predictions", "images">>,
             makedirs(<<".", "predictions", "annotations">>, {}))

\* the file systems a run may start in
FileSystems ==
    { {curdir} \cup present \cup earlier :
        present \in SUBSET {ModelPath, ImagesPath, OutPath},
        earlier \in { {}, EarlierRun } }

\* file names
a_jpg == <<"a", ".", "j", "p", "g">>
a_png == <<"a", ".", "p", "n", "g">>
B_JPG == <<"B", ".", "J", "P", "G">>
d_txt == <<"d", ".", "t", "x", "t">>
c_jpeg == <<"c", ".", "j", "p", "e", "g">>
e_PnG == <<"e", ".", "P", "n", "G">>
bare_jpg == <<"j", "p", "g">>
dot_png == <<".", "p", "n", "g">>

\* the names the images directory of Spec draws its entries from
MainNames == {a_jpg, a_png, B_JPG, d_txt}

\* the names the images directory of SpecList draws its entries from
ListNames == {a_jpg, a_png, B_JPG, d_txt, c_jpeg, e_PnG, bare_jpg, dot_png}

\* the directories of at most n entries with names of a set and kinds of a set
Directories(names, kinds, n) ==
    { d \in SUBSET [name : names, kind : kinds] :
        /\ Cardinality(d) <= n
        /\ \A e1, e2 \in d : e1.name = e2.name => e1 = e2 }

\* the class indices the detector reports
Classes == {0, 1}

\* the oriented boxes (x, y, w, h, r) the detector reports in Spec
PredictedBoxes == { <<10, 8, 6, 4, 1>> }

\* the (height, width) of an image
OrigShapes == { <<480, 640>> }

\* the oriented boxes a direct call of calculate_bbox is given
CallBoxes == {0, 6, 10} \X {4, 8} \X {0, 2, 6} \X {2, 4} \X {-3, 0, 1, 6}

\* the class tensors a direct call of calculate_bbox is given
CallLabels == [1..2 -> {0, 1, 2}]

----------------------------------------------------------------------------
(* The states main starts in. *)

\* the locals of main before main assigns them
LocalsUnset ==
    /\ raised = "none"
    /\ save_annotations_file_path = None
    /\ save_image_path = None
    /\ save_txt_file_path = None
    /\ json_file_path = None
    /\ model = FALSE
    /\ images_paths = <<>>
    /\ categories = <<>>
    /\ data_images = <<>>
    /\ data_annotations = <<>>
    /\ results = <<>>
    /\ saved_images = <<>>
    /\ saved_txts = <<>>
    /\ makedirs_calls = <<>>
    /\ json_dumps = <<>>

\* no direct call of calculate_bbox
NoCall == [bbox_id |-> 0, img_id |-> 0, r_labels |-> <<>>, r_xywhr |-> <<>>]
NoReturn == [id |-> 0]

Init ==
    /\ pc = "check_model"
    /\ config \in Configs
    /\ fs \in FileSystems
    /\ listdir \in Directories(MainNames, {"file"}, MaxImages)
    /\ (ImagesPath \notin fs => listdir = {})
    /\ LocalsUnset
    /\ call = NoCall
    /\ ret = NoReturn

InitList ==
    /\ pc = "check_model"
    /\ config \in { c \in Configs : is_list(c.labels) /\ Len(c.labels.items) = 1
                                     /\ c.save_annotations_path = None }
    /\ fs = {curdir, ModelPath, ImagesPath}
    /\ listdir \in Directories(ListNames, {"file", "dir"}, MaxEntries)
    /\ LocalsUnset
    /\ call = NoCall
    /\ ret = NoReturn

InitBBox ==
    /\ pc = "bbox_call"
    /\ config = [ model_path |-> ModelPath, images_path |-> ImagesPath,
                  save_annotations_path |-> None,
                  labels |-> [is_list |-> TRUE, items |-> LabelNames],
                  save_image |-> FALSE, save_annotation |-> FALSE ]
    /\ fs = {curdir, ModelPath, ImagesPath}
    /\ listdir = {}
    /\ LocalsUnset
    /\ call \in [ bbox_id : 1..2, img_id : 1..2, r_labels : CallLabels,
                  r_xywhr : CallBoxes ]
    /\ ret = NoReturn

----------------------------------------------------------------------------
(* main, step by step. *)

\* main ends with an exception
Raise(exception) ==
    /\ pc' = "raised"
    /\ raised' = exception

\* lines 63-65
CheckModelPath ==
    /\ pc = "check_model"
    /\ IF ~exists(config.model_path, fs)
       THEN Raise("FileNotFoundError")
       ELSE pc' = "check_images" /\ raised' = raised
    /\ UNCHANGED <<config, fs, listdir, save_annotations_file_path, save_image_path,
                   save_txt_file_path, json_file_path, model, images_paths,
                   categories, data_images, data_annotations, results,
                   saved_images, saved_txts, makedirs_calls, json_dumps, call, ret>>

\* lines 67-69
CheckImagesPath ==
    /\ pc = "check_images"
    /\ IF ~exists(config.images_path, fs)
       THEN Raise("FileNotFoundError")
       ELSE pc' = "check_save" /\ raised' = raised
    /\ UNCHANGED <<config, fs, listdir, save_annotations_file_path, save_image_path,
                   save_txt_file_path, json_file_path, model, images_paths,
                   categories, data_images, data_annotations, results,
                   saved_images, saved_txts, makedirs_calls, json_dumps, call, ret>>

\* lines 71-78: the else branch runs whenever the raise does not, also for a
\* configured path that exists
CheckSaveAnnotationsPath ==
    /\ pc = "check_save"
    /\ IF config.save_annotations_path # None
            /\ ~exists(config.save_annotations_path, fs)
       THEN /\ Raise("FileNotFoundError")
            /\ UNCHANGED <<save_annotations_file_path, save_image_path,
                           save_txt_file_path, json_file_path>>
       ELSE /\ save_annotations_file_path' = curdir
            /\ save_image_path' =
                   join(save_annotations_file_path', <<"predictions", "images">>)
            /\ save_txt_file_path' =
                   join(save_annotations_file_path', <<"predictions", "annotations">>)
            /\ json_file_path' =
                   file_path(save_annotations_file_path', "instances.json")
            /\ pc' = "check_labels"
            /\ raised' = raised
    /\ UNCHANGED <<config, fs, listdir, model, images_paths, categories,
                   data_images, data_annotations, results, saved_images,
                   saved_txts, makedirs_calls, json_dumps, call, ret>>

\* lines 80-82
CheckLabels ==
    /\ pc = "check_labels"
    /\ IF LabelsRejected(config.labels)
       THEN Raise("ValueError")
       ELSE pc' = "makedirs" /\ raised' = raised
    /\ UNCHANGED <<config, fs, listdir, save_annotations_file_path, save_image_path,
                   save_txt_file_path, json_file_path, model, images_paths,
                   categories, data_images, data_annotations, results,
                   saved_images, saved_txts, makedirs_calls, json_dumps, call, ret>>

\* the directories made with the two flags taken for each other
DirectoriesToMake_Swapped(save_image, save_txt, files) ==
    (IF save_txt /\ ~exists(save_image_path, files)
     THEN <<save_image_path>> ELSE <<>>)
    \o
    (IF save_image /\ ~exists(save_txt_file_path,
                              IF save_txt THEN makedirs(save_image_path, files)
                              ELSE files)
     THEN <<save_txt_file_path>> ELSE <<>>)

\* the paths lines 85-90 call os.makedirs with, in the order of the calls
DirectoriesToMake(save_image, save_txt, files) ==
    (IF save_image /\ ~exists(save_image_path, files)
     THEN <<save_image_path>> ELSE <<>>)
    \o
    (IF save_txt /\ ~exists(save_txt_file_path,
                            IF save_image THEN makedirs(save_image_path, files)
                            ELSE files)
     THEN <<save_txt_file_path>> ELSE <<>>)

\* lines 85-90
CreateSaveDirectories ==
    /\ pc = "makedirs"
    /\ LET made == DirectoriesToMake(config.save_image, config.save_annotation, fs)
       IN  /\ makedirs_calls' = makedirs_calls \o made
           /\ fs' = fs \cup UNION { makedirs(made[k], {}) : k \in 1..Len(made) }
    /\ pc' = "load_model"
    /\ UNCHANGED <<config, listdir, raised, save_annotations_file_path,
                   save_image_path, save_txt_file_path, json_file_path, model,
                   images_paths, categories, data_images, data_annotations,
                   results, saved_images, saved_txts, json_dumps, call, ret>>

\* line 94
LoadModel ==
    /\ pc = "load_model"
    /\ model' = TRUE
    /\ pc' = "load_images"
    /\ UNCHANGED <<config, fs, listdir, raised, save_annotations_file_path,
                   save_image_path, save_txt_file_path, json_file_path,
                   images_paths, categories, data_images, data_annotations,
                   results, saved_images, saved_txts, makedirs_calls, json_dumps,
                   call, ret>>

\* lines 97-104
LoadImages ==
    /\ pc = "load_images"
    /\ \E listing \in ListdirOrders(listdir) :
           images_paths' = LoadedImages(config.images_path, listing)
    /\ pc' = "predict"
    /\ UNCHANGED <<config, fs, listdir, raised, save_annotations_file_path,
                   save_image_path, save_txt_file_path, json_file_path, model,
                   categories, data_images, data_annotations, results,
                   saved_images, saved_txts, makedirs_calls, json_dumps, call, ret>>

\* lines 108-118: the generator is made, nothing is predicted yet
Predict ==
    /\ pc = "predict"
    /\ categories' = Categories(config.labels.items)
    /\ data_images' = <<>>
    /\ data_annotations' = <<>>
    /\ pc' = "results"
    /\ UNCHANGED <<config, fs, listdir, raised, save_annotations_file_path,
                   save_image_path, save_txt_file_path, json_file_path, model,
                   images_paths, results, saved_images, saved_txts,
                   makedirs_calls, json_dumps, call, ret>>

\* the results the generator may yield for the i-th image: any number of
\* boxes up to MaxBoxes, with one class index per box
ResultsFor(i) ==
    UNION { { [ path |-> images_paths[i],
                orig_shape |-> shape,
                obb |-> [cls |-> cls, xywhr |-> xywhr] ] :
                shape \in OrigShapes,
                cls \in [1..n -> Classes],
                xywhr \in [1..n -> PredictedBoxes] } : n \in 0..MaxBoxes }

\* lines 119-140, one pass of the loop
ConsumeResult ==
    /\ pc = "results"
    /\ Len(results) < Len(images_paths)
    /\ LET i == Len(results) + 1
       IN  \E result \in ResultsFor(i) :
               /\ results' = Append(results, result)
               /\ saved_images' =
                      IF config.save_image
                      THEN Append(saved_images, SavedImagePath(save_image_path, result))
                      ELSE saved_images
               /\ saved_txts' =
                      IF config.save_annotation
                      THEN Append(saved_txts, SavedTxtPath(save_txt_file_path, result))
                      ELSE saved_txts
               /\ data_images' = Append(data_images, new_image(i, result))
               /\ data_annotations' = data_annotations \o ResultAnnotations(i, result)
    /\ UNCHANGED <<config, fs, listdir, pc, raised, save_annotations_file_path,
                   save_image_path, save_txt_file_path, json_file_path, model,
                   images_paths, categories, makedirs_calls, json_dumps, call, ret>>

\* the detection library raises: constructing the detector, or predicting,
\* saving or converting the next result
LibraryRaises ==
    /\ \/ pc = "load_model"
       \/ pc = "results" /\ Len(results) < Len(images_paths)
    /\ Raise("LibraryError")
    /\ UNCHANGED <<config, fs, listdir, save_annotations_file_path, save_image_path,
                   save_txt_file_path, json_file_path, model, images_paths,
                   categories, data_images, data_annotations, results,
                   saved_images, saved_txts, makedirs_calls, json_dumps, call, ret>>

\* the document of lines 113-115 and 144-145
Document ==
    [ licenses |-> CocoHeader.licenses,
      info |-> CocoHeader.info,
      categories |-> categories,
      images |-> data_images,
      annotations |-> data_annotations ]

\* lines 142-149
SaveResults ==
    /\ pc = "results"
    /\ ResultsExhausted(Len(results), Len(images_paths))
    /\ json_dumps' = Append(json_dumps, [path |-> json_file_path, data |-> Document])
    /\ pc' = "done"
    /\ UNCHANGED <<config, fs, listdir, raised, save_annotations_file_path,
                   save_image_path, save_txt_file_path, json_file_path, model,
                   images_paths, categories, data_images, data_annotations,
                   results, saved_images, saved_txts, makedirs_calls, call, ret>>

\* a direct call of calculate_bbox
CalculateBBoxCall ==
    /\ pc = "bbox_call"
    /\ ret' = calculate_bbox(call.bbox_id, call.img_id, call.r_labels, call.r_xywhr)
    /\ pc' = "bbox_return"
    /\ UNCHANGED <<config, fs, listdir, raised, save_annotations_file_path,
                   save_image_path, save_txt_file_path, json_file_path, model,
                   images_paths, categories, data_images, data_annotations,
                   results, saved_images, saved_txts, makedirs_calls, json_dumps,
                   call>>

Next ==
    \/ CheckModelPath
    \/ CheckImagesPath
    \/ CheckSaveAnnotationsPath
    \/ CheckLabels
    \/ CreateSaveDirectories
    \/ LoadModel
    \/ LoadImages
    \/ Predict
    \/ ConsumeResult
    \/ LibraryRaises
    \/ SaveResults

\* main up to the list of images
NextList ==
    \/ CheckModelPath
    \/ CheckImagesPath
    \/ CheckSaveAnnotationsPath
    \/ CheckLabels
    \/ CreateSaveDirectories
    \/ LoadModel
    \/ LoadImages

NextBBox == CalculateBBoxCall

Spec == Init /\ [][Next]_vars

SpecList == InitList /\ [][NextList]_vars

SpecBBox == InitBBox /\ [][NextBBox]_vars

----------------------------------------------------------------------------
(* Properties. *)

\* no two records of a list carry the same id
IdsUnique(list) ==
    \A a, b \in 1..Len(list) : a # b => list[a].id # list[b].id

\* the number of boxes of result k
NumBoxes(k) == Len(results[k].obb.xywhr)

\* the number of boxes of the results before result k
RECURSIVE BoxesBefore(_)
BoxesBefore(k) == IF k <= 1 THEN 0 ELSE BoxesBefore(k - 1) + NumBoxes(k - 1)

\* C1: in every document written, the ids of the categories, of the images and
\* of the annotations are unique within their list.
C1_IdsUniqueInEachList ==
    \A d \in 1..Len(json_dumps) :
        /\ IdsUnique(json_dumps[d].data.categories)
        /\ IdsUnique(json_dumps[d].data.images)
        /\ IdsUnique(json_dumps[d].data.annotations)

\* C2: the annotations appended for a result with n boxes carry the ids
\* 1, 2, ..., n in the order of its boxes, whatever the earlier results
\* appended.
C2_AnnotationIdsRestartPerImage ==
    /\ Len(data_annotations) = BoxesBefore(Len(results) + 1)
    /\ \A k \in 1..Len(results) :
           \A j \in 1..NumBoxes(k) :
               data_annotations[BoxesBefore(k) + j].id = j

\* C2 witness: two results of two boxes each were converted
C2_Witness ==
    /\ pc = "done"
    /\ Len(results) = 2
    /\ NumBoxes(1) = 2
    /\ NumBoxes(2) = 2

\* C3: the k-th label becomes the category with id k and that name, the k-th
\* result becomes the image with id k, and every result, also one without
\* boxes, appends exactly one image.
C3_CategoryAndImageIdsByEnumeration ==
    /\ pc \in {"results", "done"} =>
           /\ Len(categories) = Len(config.labels.items)
           /\ \A k \in 1..Len(categories) :
                  /\ categories[k].id = k
                  /\ categories[k].name = config.labels.items[k]
    /\ Len(data_images) = Len(results)
    /\ \A k \in 1..Len(results) :
           /\ data_images[k].id = k
           /\ data_images[k].file_name = results[k].path.file
    /\ \A d \in 1..Len(json_dumps) :
           /\ json_dumps[d].data.categories = categories
           /\ Len(json_dumps[d].data.images) = Len(images_paths)

\* C3 witness: two labels, two results, the second without boxes
C3_Witness ==
    /\ pc = "done"
    /\ Len(config.labels.items) = 2
    /\ Len(results) = 2
    /\ NumBoxes(1) = 1
    /\ NumBoxes(2) = 0

\* C4: calculate_bbox returns the box with its origin moved from the centre
\* to the top-left corner by half the width and half the height, the width
\* and height unchanged, area = w * h and the rotation in degrees (pi radians
\* are 180 degrees).
C4_BBoxConversion ==
    pc = "bbox_return" =>
        LET x == call.r_xywhr[1]
            y == call.r_xywhr[2]
            w == call.r_xywhr[3]
            h == call.r_xywhr[4]
            r == call.r_xywhr[5]
        IN  /\ Len(ret.bbox) = 4
            /\ 2 * ret.bbox[1] + w = 2 * x
            /\ 2 * ret.bbox[2] + h = 2 * y
            /\ ret.bbox[3] = w
            /\ ret.bbox[4] = h
            /\ ret.area = w * h
            /\ 12 * ret.attributes.rotation = 180 * r

\* C4 witness: a box of nonzero width, height and rotation was converted
C4_Witness ==
    /\ pc = "bbox_return"
    /\ call.r_xywhr = <<10, 8, 6, 4, -3>>
    /\ ret.attributes.rotation = -45

\* what an invalid configuration leaves untouched
NothingStarted ==
    /\ model = FALSE
    /\ results = <<>>
    /\ images_paths = <<>>
    /\ makedirs_calls = <<>>
    /\ saved_images = <<>>
    /\ saved_txts = <<>>
    /\ json_dumps = <<>>
    /\ fs \cap (EarlierRun \ {curdir}) \in { {}, EarlierRun \ {curdir} }

\* C5: a missing model path, a missing images path or a missing non-null
\* save annotations path ends main with FileNotFoundError, labels that are no
\* list end it with ValueError (when the paths pass), and in each case no
\* detector was constructed, nothing was predicted and no directory or file
\* was created.
C5_ValidatedBeforeUse ==
    LET no_model == config.model_path \notin fs
        no_images == config.images_path \notin fs
        no_save == /\ config.save_annotations_path # None
                   /\ config.save_annotations_path \notin fs
        no_list == ~config.labels.is_list
    IN  /\ (no_model /\ pc # "check_model") =>
               pc = "raised" /\ raised = "FileNotFoundError"
        /\ (no_images /\ pc \notin {"check_model", "check_images"}) =>
               pc = "raised" /\ raised = "FileNotFoundError"
        /\ (no_save /\ pc \notin {"check_model", "check_images", "check_save"}) =>
               pc = "raised" /\ raised = "FileNotFoundError"
        /\ (no_list /\ ~no_model /\ ~no_images /\ ~no_save
               /\ pc \notin {"check_model", "check_images", "check_save",
                             "check_labels"}) =>
               pc = "raised" /\ raised = "ValueError"
        /\ (no_model \/ no_images \/ no_save \/ no_list) => NothingStarted

\* C5 witness: labels that are no list ended a run that was asked to save
\* images and label files
C5_Witness ==
    /\ pc = "raised"
    /\ raised = "ValueError"
    /\ config.save_image
    /\ config.save_annotation
    /\ config.save_annotations_path = OutPath

\* the name of a label file: the base name with its extension, when it has
\* one, replaced by .txt
IsTxtNameOf(txt, base) ==
    \E n \in 1..Len(base) :
        /\ txt = SubSeq(base, 1, n) \o <<".", "t", "x", "t">>
        /\ \/ n = Len(base) /\ (\A k \in 2..Len(base) : base[k] # ".")
           \/ n < Len(base) /\ base[n + 1] = "."
                /\ \A k \in (n + 2)..Len(base) : base[k] # "."

\* the sum of the boxes of all results consumed
TotalBoxes == BoxesBefore(Len(results) + 1)

C7_WrittenOnceAfterAllResults ==
    /\ Len(json_dumps) <= 1
    /\ pc \in {"load_images", "predict", "results", "done"} => model
    /\ (images_paths # <<>> \/ results # <<>>) => model
    /\ pc = "done" <=> Len(json_dumps) = 1
    /\ pc = "raised" => json_dumps = <<>>
    /\ \A d \in 1..Len(json_dumps) :
           /\ Len(results) = Len(images_paths)
           /\ json_dumps[d].path = json_file_path
           /\ json_dumps[d].data.images = data_images
           /\ json_dumps[d].data.annotations = data_annotations
           /\ Len(json_dumps[d].data.images) = Len(images_paths)
           /\ Len(json_dumps[d].data.annotations) = TotalBoxes

\* C7 witness: the library raised after the first of two results
C7_Witness ==
    /\ pc = "raised"
    /\ raised = "LibraryError"
    /\ Len(images_paths) = 2
    /\ Len(results) = 1
    /\ NumBoxes(1) = 1

\* C8: with a configured save_annotations_path that exists, instances.json and
\* the two predictions directories lie under it; the current directory is used
\* only for null.
C8_ConfiguredDirectoryUsed ==
    save_annotations_file_path # None =>
        LET base == IF config.save_annotations_path = None
                    THEN curdir
                    ELSE config.save_annotations_path
        IN  /\ json_file_path.dir = base
            /\ save_image_path = base \o <<"predictions", "images">>
            /\ save_txt_file_path = base \o <<"predictions", "annotations">>

\* C9: the annotation of the j-th box of the k-th result has image_id k, the
\* id of the image appended for that result, and category_id one more than
\* the box's class index; when that index is within the labels, it is the id
\* of the category named by the label at that index.
C9_AnnotationRefersToOwnImageAndClass ==
    \A k \in 1..Len(results) :
        \A j \in 1..NumBoxes(k) :
            LET a == data_annotations[BoxesBefore(k) + j]
                c == results[k].obb.cls[j]
            IN  /\ a.image_id = k
                /\ data_images[k].id = a.image_id
                /\ data_images[k].file_name = results[k].path.file
                /\ a.category_id = 1 + c
                /\ c < Len(config.labels.items) =>
                       \E m \in 1..Len(categories) :
                           /\ categories[m].id = a.category_id
                           /\ categories[m].name = config.labels.items[c + 1]

\* C9 witness: the second result holds two boxes of different classes, both
\* within two labels
C9_Witness ==
    /\ pc = "done"
    /\ Len(config.labels.items) = 2
    /\ Len(results) = 2
    /\ NumBoxes(1) = 1
    /\ results[2].obb.cls = <<1, 0>>

\* a name that ends, case-insensitively, with .jpg, .jpeg or .png
HasImageExtension(name) ==
    \E suffix \in ImageSuffixes :
        /\ Len(suffix) <= Len(name)
        /\ \A j \in 1..Len(suffix) :
               LowerChar(name[Len(name) - Len(suffix) + j]) = suffix[j]

\* C10: the list passed to prediction holds exactly the regular files of the
\* images directory whose name ends, case-insensitively, with .jpg, .jpeg or
\* .png, each once, in ascending order of their path.
C10_ImagesListedFilteredSorted ==
    pc = "predict" =>
        /\ \A e \in listdir :
               (e.kind = "file" /\ HasImageExtension(e.name)) <=>
                   (\E k \in 1..Len(images_paths) :
                        images_paths[k] = [dir |-> config.images_path, file |-> e.name])
        /\ \A k \in 1..Len(images_paths) :
               /\ images_paths[k].dir = config.images_path
               /\ \E e \in listdir : e.name = images_paths[k].file
        /\ \A a, b \in 1..Len(images_paths) :
               a < b => StrLess(images_paths[a].file, images_paths[b].file)

\* C10 witness: an upper-case image name sorted before a lower-case one, and
\* a directory with an image name left out
C10_Witness ==
    /\ pc = "predict"
    /\ [name |-> e_PnG, kind |-> "dir"] \in listdir
    /\ Len(images_paths) = 2
    /\ images_paths[1].file = B_JPG
    /\ images_paths[2].file = a_jpg

====
